---- MODULE Spec2Model ----
(***************************************************************************)
(* Model of the remote-data-fetch layer of gpui_hn_app:                    *)
(*   src/src/cache.rs    Cache<T>   (TTL cache with stale reads)           *)
(*   src/src/api/mod.rs  ApiService (rate limiter, retry/backoff,          *)
(*                       in-flight request deduplication, batch fetch)     *)
(*                                                                         *)
(* Granularity.  The service runs on a multi-threaded runtime, so every    *)
(* access to a shared object (a cache lock, the DashMap of in-flight       *)
(* requests, the semaphore, the cancellation token) is a step of its own.  *)
(* A Shared future makes progress only while some caller awaits it; the    *)
(* HTTP request itself runs in a task spawned on the tokio runtime and     *)
(* goes on whether or not anybody awaits it.                               *)
(***************************************************************************)
EXTENDS Integers, Sequences, FiniteSets, TLC

----------------------------------------------------------------------------
(* Bounds of the model.                                                    *)

\* number of calls of the fetch operations: tasks calling the service, or
\* the items of one batch
NCalls == 2
\* number of clock advances of one TTL in the service specifications
MaxTicks == 1
\* largest clock value of the cache specification (seconds)
MaxClock == 3
\* largest TTL (seconds) of the cache under test
MaxTtl == 2
\* largest max_retries drawn in the retry specification
MaxRetriesCfg == 2
\* largest retry delay (ms) drawn in the retry specification
MaxDelayCfg == 3
\* the largest capacity of a log buffer and the most lines appended
MaxCap == 3
MaxAppends == 5
\* the longest history file and the most adds
MaxLoaded == 52
MaxAdds == 2

(* Program constants.                                                      *)

\* Cache::new(300): TTL in seconds of the three caches of the service
CacheTtlSecs == 300
\* the item id the tests of the service fetch
HotId == 12345
\* ... and a second one
OtherId == 67890

----------------------------------------------------------------------------
(* Values.                                                                 *)

Min(a, b) == IF a <= b THEN a ELSE b

\* Option<T>
None == [some |-> FALSE, val |-> "none"]
Some(v) == [some |-> TRUE, val |-> v]

\* response bodies the server can send: two parsable versions and one that
\* no target type parses (invalid JSON, or the body of an HTTP error status)
GoodBodies == {"v1", "v2"}
Bodies == GoodBodies \cup {"bad"}

\* responses with an HTTP error status (send() returns Ok for them): one
\* whose body is a parsable document, one whose body is not (an empty body)
HttpErrBodies == {"404_v1", "404_bad"}

\* resp.text(): the body, whatever the status
BodyText(out) ==
    CASE out = "404_v1" -> "v1"
      [] out = "404_bad" -> "bad"
      [] OTHER -> out

\* outcome of one attempt: a body, or a reqwest error.  An error of send()
\* is classified by e.is_timeout() and e.is_connect(), two independent
\* tests: "timeout" (is_timeout only), "connect" (is_connect only),
\* "connect_timeout" (both: the connection attempt timed out), "other"
\* (neither).  An error of resp.text() (send succeeded, reading the body
\* failed) is not classified: "text", and "text_timeout" when the read
\* timed out.
SendErrs == {"timeout", "connect", "connect_timeout", "other"}
TextErrs == {"text", "text_timeout"}
ErrKinds == SendErrs \cup TextErrs

\* reqwest::Error::is_timeout, is_connect
IsTimeout(kind) == kind \in {"timeout", "connect_timeout", "text_timeout"}
IsConnect(kind) == kind \in {"connect", "connect_timeout"}

\* StoryListType, by ordinal (Best = 0, Top = 1, ...)
ListTypes == {1}
ItemIds == {HotId, OtherId}
Tokens == {"t1"}

ListUrl(l) == [k |-> "list", n |-> l]
ItemUrl(id) == [k |-> "item", n |-> id]
Urls == {ListUrl(l) : l \in ListTypes} \cup {ItemUrl(i) : i \in ItemIds}

\* the URL a call of the given kind fetches
UrlOf(kind, key) == IF kind = "ids" THEN ListUrl(key) ELSE ItemUrl(key)

\* serde_json::from_str::<T>(&body): every target type rejects "bad"
ParseOk(body) == body \in GoodBodies

----------------------------------------------------------------------------
(* LogBuffer: lines is the VecDeque<String>, the oldest line first.        *)

\* VecDeque::pop_front: nothing to remove from an empty deque
PopFront(q) == IF q = <<>> THEN q ELSE Tail(q)

\* VecDeque::pop_back
PopBack(q) == IF q = <<>> THEN q ELSE SubSeq(q, 1, Len(q) - 1)

\* LogBuffer::new(capacity).  appended: every line appended since the
\* buffer was created or cleared
LogBufferNew(capacity) ==
    [capacity |-> capacity, lines |-> <<>>, appended |-> <<>>]

\* LogBuffer::append: the front line leaves when the buffer is full, then
\* the line is pushed at the back
LogBufferAppend(lines, capacity, line) ==
    Append(IF Len(lines) >= capacity THEN PopFront(lines) ELSE lines, line)

\* LogBuffer::get_lines
LogBufferGetLines(lines) == lines

\* LogBuffer::clear
LogBufferClear(lines) == <<>>

----------------------------------------------------------------------------
(* History: history is the VecDeque<ViewedStory>, the most recent first;   *)
(* an entry is [id, viewed_at].                                            *)

MAX_HISTORY_SIZE == 50

ViewedStory(id, t) == [id |-> id, viewed_at |-> t]

\* History::new
HistoryNew == <<>>

\* the history file: absent, unreadable as a list of entries, or a list
NoFile == [exists |-> FALSE, parses |-> FALSE, entries |-> <<>>]
BadFile == [exists |-> TRUE, parses |-> FALSE, entries |-> <<>>]
GoodFile(q) == [exists |-> TRUE, parses |-> TRUE, entries |-> q]

\* History::load: the list of the file as it is, an empty history when the
\* file is absent or does not parse
HistoryLoad(file) ==
    IF file.exists /\ file.parses THEN file.entries ELSE HistoryNew

\* History::add: retain, push_front, then one pop_back over the maximum
HistoryAddNoRetain(h, id, t) ==
    LET pushed == <<ViewedStory(id, t)>> \o h
    IN  IF Len(pushed) > MAX_HISTORY_SIZE THEN PopBack(pushed) ELSE pushed

HistoryAdd(h, id, t) ==
    LET kept == SelectSeq(h, LAMBDA s : s.id # id)
        pushed == <<ViewedStory(id, t)>> \o kept
    IN  IF Len(pushed) > MAX_HISTORY_SIZE THEN PopBack(pushed) ELSE pushed

\* History::clear
HistoryClear(h) == <<>>

\* History::count
HistoryCount(h) == Len(h)

----------------------------------------------------------------------------
(* Cache<T>: store is the HashMap (a function on the keys present),        *)
(* an entry is [value, expires_at].                                        *)

\* Cache::get
CacheGetWrongCmp(store, key, t) ==
    IF key \in DOMAIN store /\ store[key].expires_at >= t
    THEN Some(store[key].value) ELSE None

CacheGet(store, key, t) ==
    IF key \in DOMAIN store /\ store[key].expires_at > t
    THEN Some(store[key].value) ELSE None

\* Cache::get_stale, as the specification describes it: the value whatever
\* the expiry
CacheGetStale(store, key) ==
    IF key \in DOMAIN store THEN Some(store[key].value) ELSE None

\* Cache::insert
CacheInsertKeepsFresh(store, key, v, t, d) ==
    IF key \in DOMAIN store /\ store[key].expires_at > t THEN store
    ELSE [k \in DOMAIN store \cup {key} |->
            IF k = key THEN [value |-> v, expires_at |-> t + d] ELSE store[k]]

CacheInsert(store, key, v, t, d) ==
    [k \in DOMAIN store \cup {key} |->
        IF k = key THEN [value |-> v, expires_at |-> t + d] ELSE store[k]]

\* Cache::cleanup
CacheCleanupWrongCmp(store, t) ==
    [k \in {x \in DOMAIN store : store[x].expires_at >= t} |-> store[k]]

CacheCleanup(store, t) ==
    [k \in {x \in DOMAIN store : store[x].expires_at > t} |-> store[k]]

\* Cache::clear
CacheClearSkipped(store) == store

CacheClear(store) == [k \in {} |-> None]

\* Cache::len
CacheLen(store) == Cardinality(DOMAIN store)

\* Cache::is_empty
CacheIsEmpty(store) == CacheLen(store) = 0

EmptyStore == [k \in {} |-> None]

----------------------------------------------------------------------------
VARIABLES
    cfg,                \* NetworkConfig, with permits = ceil(rate_limit_per_second)
    now,                \* Instant::now(), in seconds
    cancelled,          \* the CancellationTokens that have been cancelled
    available,          \* permits available in rate_limiter
    inflight_requests,  \* url -> the operation stored in the map, 0 if none
    ops,                \* the shared fetch_raw futures, by creating call
    http,               \* the spawned request of each operation
    detached,           \* spawned requests still running whose operation was dropped
    calls,              \* the calls of the public fetch operations
    story_ids_cache, story_cache, comment_cache,
    batch,              \* the call of fetch_stories/comments_concurrent
    cache,              \* a Cache under test: [store, ttl]
    probe,              \* the last operation on the cache under test and its result
    log_buffer,         \* a LogBuffer: [capacity, lines]
    history,            \* a History: [history], the VecDeque of ViewedStory
    app_state,          \* the AppState entity: its pagination fields
    tasks               \* the foreground tasks spawned on the AppState

vars == <<cfg, now, cancelled, available, inflight_requests, ops, http, detached,
          calls, story_ids_cache, story_cache, comment_cache, batch, cache, probe,
          log_buffer, history, app_state, tasks>>

svcVars == <<cfg, now, cancelled, available, inflight_requests, ops, http,
             detached, calls, story_ids_cache, story_cache, comment_cache, batch>>

cacheVars == <<cache, probe>>

uiVars == <<app_state, tasks>>

appVars == <<log_buffer, history, uiVars>>

CallIds == 1 .. NCalls

----------------------------------------------------------------------------
(* NetworkConfig and the retry policy of fetch_raw.                        *)

\* with_config: permits = rate_limit_per_second.ceil(), the rate in tenths
Permits(rate_x10) == (rate_x10 + 9) \div 10

\* fetch_raw: should_retry
ShouldRetryAlways(kind, retry_on_timeout) == TRUE

ShouldRetry(kind, retry_on_timeout) ==
    (IsTimeout(kind) /\ retry_on_timeout) \/ IsConnect(kind)

\* fetch_raw: attempt > max_retries ends the loop
ExhaustedOffByOne(attempt, max_retries) == attempt >= max_retries

Exhausted(attempt, max_retries) == attempt > max_retries

\* fetch_raw: delay = (delay * 2).min(max_retry_delay_ms)
NextDelay(delay, max_delay) == Min(delay * 2, max_delay)

----------------------------------------------------------------------------
(* The shared fetch_raw futures.                                           *)

\* with_context(|| format!("failed to ... {}", url)): the message of an
\* error of fetch_raw names the failing step and the URL
ErrMsg(step, url) == [step |-> step, url |-> url]
NoMsg == [step |-> "none", url |-> ListUrl(0)]
NoResult == [ok |-> FALSE, body |-> "none", err |-> NoMsg]
OkResult(b) == [ok |-> TRUE, body |-> b, err |-> NoMsg]
\* map_err(|e| e.to_string()): the outermost message is what is kept
ErrResult(msg) == [ok |-> FALSE, body |-> "none", err |-> msg]

\* `if self.enable_metrics { tracing::debug!(..) }`: the number of events
\* the block emits
Emit(m) == IF m THEN 1 ELSE 0

\* a call, operation or batch record without its count of emitted events
Unlogged(r) == [r EXCEPT !.log = 0]

\* http_error: the response that ended the operation had an error status;
\* log: the metrics events the operation has emitted
NoOp == [st |-> "none", url |-> ListUrl(0), attempt |-> 0, delay |-> 0,
         result |-> NoResult, fails |-> <<>>, slept |-> <<>>,
         http_error |-> FALSE, log |-> 0]

\* get_json: the future created on a miss; it runs fetch_raw up to its first
\* suspension point (attempt = 1, waiting for a permit)
NewOp(url) == [st |-> "acquire", url |-> url, attempt |-> 1,
               delay |-> cfg.initial_retry_delay_ms,
               result |-> NoResult, fails |-> <<>>, slept |-> <<>>,
               http_error |-> FALSE, log |-> 0]

IdleHttp == [st |-> "idle", out |-> "none"]

\* the permit of an attempt is held from its acquisition to the end of the
\* loop body, the backoff sleep included
HoldsPermit(op) == op.st \in {"send", "sleep"}

Unfinished(op) == op.st \in {"acquire", "send", "sleep"}

----------------------------------------------------------------------------
(* The calls.                                                              *)

NoRet == [ok |-> FALSE, val |-> "none", how |-> "none"]
OkRet(v, how) == [ok |-> TRUE, val |-> v, how |-> how]
ErrRet(how) == [ok |-> FALSE, val |-> "none", how |-> how]

\* pc: the position of the call; fut: the future it awaits or awaited;
\* raw: the output of future.await; ret: the value returned;
\* item: the call is an item of the batch.
\* History kept for the properties: pre (the token was cancelled when the
\* call was made), had (the cache held an entry, fresh or not, for the key
\* when the call was made), replay (the future found in the map had
\* already completed), mid (the token was cancelled while the call was
\* suspended at future.await), fin (the time of the return), seen (the
\* values that calls for the same key had fetched and returned less than
\* one TTL before the call was made), fly (the request of the awaited
\* future was running when the token was cancelled).
\* ctx: the context chain of the error returned, outermost message first.
\* log: the metrics events the call has emitted.
\* post: a call for the same key had returned a stale value when the call
\* was made.
\* stole: the remove of the call took out of the map the entry of an
\* unfinished operation other than the one the call awaited.
IdleCall == [pc |-> "idle", kind |-> "none", key |-> 0, tok |-> "none",
             fut |-> 0, raw |-> NoResult, ret |-> NoRet, item |-> FALSE,
             pre |-> FALSE, had |-> FALSE, replay |-> FALSE, mid |-> FALSE,
             fin |-> 0, seen |-> {}, fly |-> FALSE, ctx |-> <<>>, log |-> 0,
             stole |-> FALSE, post |-> FALSE]

CallUrl(c) == UrlOf(calls[c].kind, calls[c].key)

\* The items of a batch are futures of one task (buffer_unordered polls them
\* one after the other): an item is polled only while no other item of the
\* batch is in the middle of a poll.
MidPoll(c) == calls[c].item /\ calls[c].pc \in {"lookup", "insert", "remove", "finish"}

PollFree(c) == calls[c].item => \A d \in DOMAIN calls : d # c => ~MidPoll(d)

\* a Shared future is polled by the callers awaiting it
Awaiting(cs, o) == {c \in DOMAIN cs : cs[c].pc = "await" /\ cs[c].fut = o}

Polled(o) == Awaiting(calls, o) # {}

\* the clones of a Shared future: one per awaiting caller, one in the map
Referenced(cs, infl, o) ==
    Awaiting(cs, o) # {} \/ \E u \in Urls : infl[u] = o

\* When the last clone of an unfinished future is dropped, fetch_raw is
\* dropped with it: its permit returns to the semaphore, and the JoinHandle
\* of a spawned request is dropped, which detaches the request.
DropEffects(opsBase, cs, infl) ==
    LET D == {o \in DOMAIN opsBase :
                Unfinished(opsBase[o]) /\ ~Referenced(cs, infl, o)}
    IN  /\ ops' = [o \in DOMAIN opsBase |->
                     IF o \in D THEN [opsBase[o] EXCEPT !.st = "dropped"]
                     ELSE opsBase[o]]
        /\ available' = available
                        + Cardinality({o \in D : HoldsPermit(opsBase[o])})
        /\ detached' = detached
                       + Cardinality({o \in D : http[o].st = "running"})
        /\ http' = [o \in DOMAIN http |-> IF o \in D THEN IdleHttp ELSE http[o]]

CacheOf(kind) ==
    CASE kind = "ids" -> story_ids_cache
      [] kind = "story" -> story_cache
      [] kind = "comment" -> comment_cache

\* the three caches after `kind`'s cache is replaced by s
SetCache(kind, s) ==
    /\ story_ids_cache' = IF kind = "ids" THEN s ELSE story_ids_cache
    /\ story_cache' = IF kind = "story" THEN s ELSE story_cache
    /\ comment_cache' = IF kind = "comment" THEN s ELSE comment_cache

cacheSvc == <<story_ids_cache, story_cache, comment_cache>>

\* fetch_story_ids: the check of the token before the request
PreCancelledIgnored(tok) == FALSE

PreCancelled(tok) == tok # "none" /\ tok \in cancelled

\* the values fetched for the key by calls that returned within the last TTL
FetchedLately(kind, key) ==
    {calls[d].ret.val : d \in {x \in DOMAIN calls :
        /\ calls[x].pc = "done" /\ calls[x].ret.how = "fetched"
        /\ calls[x].kind = kind /\ calls[x].key = key
        /\ now < calls[x].fin + CacheTtlSecs}}

\* the calls for the key that have returned the stale value of the cache
ReturnedStale(kind, key) ==
    {x \in DOMAIN calls :
        /\ calls[x].pc = "done" /\ calls[x].kind = kind /\ calls[x].key = key
        /\ calls[x].ret.ok /\ calls[x].ret.how = "stale"}

\* Entry of fetch_story_ids, fetch_story_content, fetch_comment_content up to
\* the call of get_json: the cache read, then (ids only) the token check.
EnterNoCache(c, kind, key, tok, parent) ==
    LET base == [IdleCall EXCEPT !.kind = kind, !.key = key, !.tok = tok,
                                 !.item = (parent # 0),
                                 !.pre = (tok \in cancelled),
                                 !.had = (key \in DOMAIN CacheOf(kind)),
                                 !.seen = FetchedLately(kind, key)]
    IN  calls' = [calls EXCEPT ![c] =
            IF kind = "ids" /\ PreCancelled(tok)
            THEN [base EXCEPT !.pc = "done", !.ret = ErrRet("cancelled")]
            ELSE [base EXCEPT !.pc = "lookup"]]

\* the call after its entry; m is enable_metrics: the item fetches trace
\* their cache miss
Entered(kind, key, tok, parent, m) ==
    LET hit == CacheGet(CacheOf(kind), key, now)
        base == [IdleCall EXCEPT !.kind = kind, !.key = key, !.tok = tok,
                                 !.item = (parent # 0),
                                 !.pre = (tok \in cancelled),
                                 !.had = (key \in DOMAIN CacheOf(kind)),
                                 !.seen = FetchedLately(kind, key),
                                 !.post = ReturnedStale(kind, key) # {}]
    IN  IF hit.some
        THEN [base EXCEPT !.pc = "done", !.ret = OkRet(hit.val, "hit")]
        ELSE IF kind = "ids" /\ PreCancelled(tok)
        THEN [base EXCEPT !.pc = "done", !.ret = ErrRet("cancelled")]
        ELSE IF kind = "ids"
        THEN [base EXCEPT !.pc = "lookup"]
        ELSE [base EXCEPT !.pc = "lookup", !.log = @ + Emit(m)]

Enter(c, kind, key, tok, parent) ==
    calls' = [calls EXCEPT ![c] =
                 Entered(kind, key, tok, parent, cfg.enable_metrics)]

\* a task calls fetch_story_ids / fetch_story_content / fetch_comment_content
Start(c, kind, key, tok) ==
    /\ calls[c].pc = "idle"
    /\ \A d \in CallIds : d < c => calls[d].pc # "idle"
    /\ kind = "ids" \/ tok = "none"
    /\ Enter(c, kind, key, tok, 0)
    /\ UNCHANGED <<cfg, now, cancelled, available, inflight_requests, ops, http,
                   detached, cacheSvc, batch, cacheVars, appVars>>

\* get_json: self.inflight_requests.get(url); m is enable_metrics: a
\* joined request is logged, then the future is cloned
LookupCallLoggedMisses(c, m) ==
    LET o == inflight_requests[CallUrl(c)]
    IN  IF o # 0 /\ ~m
        THEN [calls[c] EXCEPT !.pc = "await", !.fut = o,
                              !.replay = (ops[o].st = "done")]
        ELSE [calls[c] EXCEPT !.pc = "insert", !.log = @ + Emit(m)]

LookupCall(c, m) ==
    LET o == inflight_requests[CallUrl(c)]
    IN  IF o # 0
        THEN [calls[c] EXCEPT !.pc = "await", !.fut = o,
                              !.replay = (ops[o].st = "done"),
                              !.log = @ + Emit(m)]
        ELSE [calls[c] EXCEPT !.pc = "insert"]

Lookup(c) ==
    /\ calls[c].pc = "lookup"
    /\ calls' = [calls EXCEPT ![c] = LookupCall(c, cfg.enable_metrics)]
    /\ UNCHANGED <<cfg, now, cancelled, available, inflight_requests, ops, http,
                   detached, cacheSvc, batch, cacheVars, appVars>>

\* get_json: the miss branch; the new future is inserted and awaited
Insert(c) ==
    /\ calls[c].pc = "insert"
    /\ LET cs == [calls EXCEPT ![c] = [@ EXCEPT !.pc = "await", !.fut = c]]
           infl == [inflight_requests EXCEPT ![CallUrl(c)] = c]
       IN  /\ calls' = cs
           /\ inflight_requests' = infl
           /\ DropEffects([ops EXCEPT ![c] = NewOp(CallUrl(c))], cs, infl)
    /\ UNCHANGED <<cfg, now, cancelled, cacheSvc, batch, cacheVars, appVars>>

\* get_json: future.await returns the output of the shared future
AwaitReadyJoinerFails(c) ==
    /\ calls[c].pc = "await"
    /\ ops[calls[c].fut].st = "done"
    /\ PollFree(c)
    /\ calls' = [calls EXCEPT ![c] =
                    [@ EXCEPT !.pc = "remove",
                              !.raw = IF calls[c].fut = c
                                      THEN ops[calls[c].fut].result
                                      ELSE ErrResult(ErrMsg("join", CallUrl(c)))]]
    /\ UNCHANGED <<cfg, now, cancelled, available, inflight_requests, ops, http,
                   detached, cacheSvc, batch, cacheVars, appVars>>

AwaitReady(c) ==
    /\ calls[c].pc = "await"
    /\ ops[calls[c].fut].st = "done"
    /\ PollFree(c)
    /\ calls' = [calls EXCEPT ![c] =
                    [@ EXCEPT !.pc = "remove", !.raw = ops[calls[c].fut].result]]
    /\ UNCHANGED <<cfg, now, cancelled, available, inflight_requests, ops, http,
                   detached, cacheSvc, batch, cacheVars, appVars>>

\* get_json: self.inflight_requests.remove(url)
Remove(c) ==
    /\ calls[c].pc = "remove"
    /\ LET found == inflight_requests[CallUrl(c)]
           cs == [calls EXCEPT ![c] =
                    [@ EXCEPT !.pc = "finish",
                              !.stole = /\ found \notin {0, calls[c].fut}
                                        /\ Unfinished(ops[found])]]
           infl == [inflight_requests EXCEPT ![CallUrl(c)] = 0]
       IN  /\ calls' = cs
           /\ inflight_requests' = infl
           /\ DropEffects(ops, cs, infl)
    /\ UNCHANGED <<cfg, now, cancelled, cacheSvc, batch, cacheVars, appVars>>

\* the message each fetch operation puts around an error of get_json; it
\* names the list or the id
OpFailed(kind) ==
    CASE kind = "ids" -> "fetch_story_ids failed"
      [] kind = "story" -> "fetch_story_content failed"
      [] kind = "comment" -> "fetch_comment_content failed"

\* the context chain of an error: the message of the operation, then the
\* error of get_json, which is its own parse message or the string of the
\* shared future's error
ErrContext(kind, key, raw) ==
    <<ErrMsg(OpFailed(kind), UrlOf(kind, key)),
      IF raw.ok THEN ErrMsg("parse", UrlOf(kind, key)) ELSE raw.err>>

\* what the call returns once get_json has its raw result: the parse, then
\* for ids the error with its context, for items the stale fallback
OutcomeStaleForAll(kind, key, raw) ==
    IF raw.ok /\ ParseOk(raw.body) THEN OkRet(raw.body, "fetched")
    ELSE LET why == IF raw.ok THEN "parse" ELSE "network"
             stale == CacheGetStale(CacheOf(kind), key)
         IN  IF stale.some THEN OkRet(stale.val, "stale")
             ELSE ErrRet(why)

OutcomeParseAsNetwork(kind, key, raw) ==
    IF raw.ok /\ ParseOk(raw.body) THEN OkRet(raw.body, "fetched")
    ELSE LET stale == CacheGetStale(CacheOf(kind), key)
         IN  IF kind # "ids" /\ stale.some THEN OkRet(stale.val, "stale")
             ELSE ErrRet("network")

OutcomeFreshOnly(kind, key, raw) ==
    IF raw.ok /\ ParseOk(raw.body) THEN OkRet(raw.body, "fetched")
    ELSE LET why == IF raw.ok THEN "parse" ELSE "network"
             fresh == CacheGet(CacheOf(kind), key, now)
         IN  IF kind # "ids" /\ fresh.some THEN OkRet(fresh.val, "stale")
             ELSE ErrRet(why)

Outcome(kind, key, raw) ==
    IF raw.ok /\ ParseOk(raw.body) THEN OkRet(raw.body, "fetched")
    ELSE LET why == IF raw.ok THEN "parse" ELSE "network"
             stale == CacheGetStale(CacheOf(kind), key)
         IN  IF kind # "ids" /\ stale.some THEN OkRet(stale.val, "stale")
             ELSE ErrRet(why)

\* the call at its return; m is enable_metrics: a fetched value is logged
\* after its cache insert
FinishCall(c, m) ==
    LET k == calls[c].kind
        r == Outcome(k, calls[c].key, calls[c].raw)
    IN  [calls[c] EXCEPT !.pc = "done", !.ret = r, !.fin = now,
                         !.ctx = IF r.ok THEN <<>>
                                 ELSE ErrContext(k, calls[c].key, calls[c].raw),
                         !.log = @ + (IF r.how = "fetched" THEN Emit(m) ELSE 0)]

\* get_json's parse and the rest of the fetch operation: cache insert, return
FinishRefreshesStale(c) ==
    /\ calls[c].pc = "finish"
    /\ LET k == calls[c].kind
           r == FinishCall(c, cfg.enable_metrics).ret
       IN  /\ calls' = [calls EXCEPT ![c] = FinishCall(c, cfg.enable_metrics)]
           /\ SetCache(k, IF r.how \in {"fetched", "stale"}
                          THEN CacheInsert(CacheOf(k), calls[c].key, r.val, now,
                                           CacheTtlSecs)
                          ELSE CacheOf(k))
           /\ batch' = IF calls[c].item
                       THEN [batch EXCEPT !.results = Append(@, r)]
                       ELSE batch
    /\ UNCHANGED <<cfg, now, cancelled, available, inflight_requests, ops, http,
                   detached, cacheVars, appVars>>

Finish(c) ==
    /\ calls[c].pc = "finish"
    /\ LET k == calls[c].kind
           r == FinishCall(c, cfg.enable_metrics).ret
       IN  /\ calls' = [calls EXCEPT ![c] = FinishCall(c, cfg.enable_metrics)]
           /\ SetCache(k, IF r.how = "fetched"
                          THEN CacheInsert(CacheOf(k), calls[c].key, r.val, now,
                                           CacheTtlSecs)
                          ELSE CacheOf(k))
           /\ batch' = IF calls[c].item
                       THEN [batch EXCEPT !.results = Append(@, r)]
                       ELSE batch
    /\ UNCHANGED <<cfg, now, cancelled, available, inflight_requests, ops, http,
                   detached, cacheVars, appVars>>

\* fetch_story_ids: the token.cancelled() branch of select! wins; get_json,
\* never polled yet or suspended at future.await, is dropped.  select! polls
\* its branches in random order: when the shared future has completed too,
\* AwaitReady is as possible as CancelReturn.
CancelReturnAborts(c) ==
    /\ calls[c].kind = "ids"
    /\ calls[c].pc \in {"lookup", "await"}
    /\ PreCancelled(calls[c].tok)
    /\ calls' = [calls EXCEPT ![c] =
                    [@ EXCEPT !.pc = "done", !.ret = ErrRet("cancelled")]]
    /\ DropEffects(ops, [d \in CallIds |-> IdleCall], [u \in Urls |-> 0])
    /\ UNCHANGED <<cfg, now, cancelled, inflight_requests, cacheSvc, batch,
                   cacheVars, appVars>>

CancelReturn(c) ==
    /\ calls[c].kind = "ids"
    /\ calls[c].pc \in {"lookup", "await"}
    /\ PreCancelled(calls[c].tok)
    /\ LET cs == [calls EXCEPT ![c] =
                     [@ EXCEPT !.pc = "done", !.ret = ErrRet("cancelled")]]
       IN  /\ calls' = cs
           /\ DropEffects(ops, cs, inflight_requests)
    /\ UNCHANGED <<cfg, now, cancelled, inflight_requests, cacheSvc, batch,
                   cacheVars, appVars>>

\* CancellationToken::cancel, by the owner of the token
Cancel(t) ==
    /\ t \notin cancelled
    /\ cancelled' = cancelled \cup {t}
    /\ calls' = [c \in DOMAIN calls |->
                    IF calls[c].tok = t /\ calls[c].pc = "await"
                    THEN [calls[c] EXCEPT
                            !.mid = TRUE,
                            !.fly = (http[calls[c].fut].st = "running")]
                    ELSE calls[c]]
    /\ UNCHANGED <<cfg, now, available, inflight_requests, ops, http, detached,
                   cacheSvc, batch, cacheVars, appVars>>

\* the clock advances by one TTL
Tick ==
    /\ now < MaxTicks * CacheTtlSecs
    /\ now' = now + CacheTtlSecs
    /\ UNCHANGED <<cfg, cancelled, available, inflight_requests, ops, http,
                   detached, calls, cacheSvc, batch, cacheVars, appVars>>

----------------------------------------------------------------------------
(* fetch_raw, one step per suspension point.                               *)

\* rate_limiter.acquire() succeeds and the request is spawned
OpAcquire(o) ==
    /\ ops[o].st = "acquire"
    /\ Polled(o)
    /\ available > 0
    /\ available' = available - 1
    /\ ops' = [ops EXCEPT ![o] = [@ EXCEPT !.st = "send"]]
    /\ http' = [http EXCEPT ![o] = [st |-> "running", out |-> "none"]]
    /\ UNCHANGED <<cfg, now, cancelled, inflight_requests, detached, calls,
                   cacheSvc, batch, cacheVars, appVars>>

\* the spawned request ends, with a body or an error
NetCompleteCaches(o, out) ==
    /\ http[o].st = "running"
    /\ http' = [http EXCEPT ![o] = [st |-> "ready", out |-> out]]
    /\ SetCache("ids", IF ops[o].url.k = "list" /\ ParseOk(out)
                       THEN CacheInsert(story_ids_cache, ops[o].url.n, out, now,
                                        CacheTtlSecs)
                       ELSE story_ids_cache)
    /\ UNCHANGED <<cfg, now, cancelled, available, inflight_requests, ops,
                   detached, calls, batch, cacheVars, appVars>>

NetComplete(o, out) ==
    /\ http[o].st = "running"
    /\ http' = [http EXCEPT ![o] = [st |-> "ready", out |-> out]]
    /\ UNCHANGED <<cfg, now, cancelled, available, inflight_requests, ops,
                   detached, calls, cacheSvc, batch, cacheVars, appVars>>

\* a detached request ends; nobody reads its result
DetachedComplete ==
    /\ detached > 0
    /\ detached' = detached - 1
    /\ UNCHANGED <<cfg, now, cancelled, available, inflight_requests, ops, http,
                   calls, cacheSvc, batch, cacheVars, appVars>>

\* fetch_raw after the request: the match on resp_result; m is
\* enable_metrics: the successful GET and the final failure are logged, an
\* error of resp.text() leaves through `?` before the log
ReceiveOp(o, m) ==
    LET out == http[o].out
        op == ops[o]
    IN  IF out \in Bodies \cup HttpErrBodies
        THEN [op EXCEPT !.st = "done",
                        !.result = OkResult(BodyText(out)),
                        !.http_error = (out \in HttpErrBodies),
                        !.log = @ + Emit(m)]
        ELSE IF out \in TextErrs
        THEN [op EXCEPT !.st = "done",
                        !.result = ErrResult(ErrMsg("text", op.url)),
                        !.fails = Append(@, out)]
        ELSE IF ~ShouldRetry(out, cfg.retry_on_timeout)
                \/ Exhausted(op.attempt, cfg.max_retries)
        THEN [op EXCEPT !.st = "done",
                        !.result = ErrResult(ErrMsg("send", op.url)),
                        !.fails = Append(@, out),
                        !.log = @ + Emit(m)]
        ELSE [op EXCEPT !.st = "sleep", !.fails = Append(@, out),
                        !.slept = Append(@, op.delay)]

\* the permit is kept over the backoff sleep and released at the return
OpReceive(o) ==
    /\ ops[o].st = "send"
    /\ http[o].st = "ready"
    /\ Polled(o)
    /\ ops' = [ops EXCEPT ![o] = ReceiveOp(o, cfg.enable_metrics)]
    /\ available' = IF ops'[o].st = "done" THEN available + 1 ELSE available
    /\ http' = [http EXCEPT ![o] = IdleHttp]
    /\ UNCHANGED <<cfg, now, cancelled, inflight_requests, detached, calls,
                   cacheSvc, batch, cacheVars, appVars>>

\* the backoff sleep ends: the delay doubles, the permit of the attempt is
\* dropped at the end of the loop body and the next attempt begins
OpWake(o) ==
    /\ ops[o].st = "sleep"
    /\ Polled(o)
    /\ ops' = [ops EXCEPT ![o] =
                  [@ EXCEPT !.st = "acquire", !.attempt = @ + 1,
                            !.delay = NextDelay(@, cfg.max_retry_delay_ms)]]
    /\ available' = available + 1
    /\ UNCHANGED <<cfg, now, cancelled, inflight_requests, http, detached, calls,
                   cacheSvc, batch, cacheVars, appVars>>

----------------------------------------------------------------------------
(* The service under concurrent callers.                                   *)

\* op: the last operation on the history; before: the entries before it;
\* added: the id of the last add; adds: the number of adds so far
HistoryState(h, op) ==
    [history |-> h, op |-> op, before |-> <<>>, added |-> 0, adds |-> 0]

MaxTasks == 3
TaskIds == 1 .. MaxTasks

\* the page of fetch_more_stories: (start + 20).min(story_ids.len())
PageSize == 20

\* the number of ids the server lists for a list type
MaxListLen == 30

StoryLists == {"Best", "Top"}

\* AppState::new: the pagination fields; epoch counts the resets of
\* fetch_stories, foreign the batches applied since the last reset that were
\* requested before it
AppStateNew ==
    [stories |-> <<>>, loading |-> TRUE, loading_more |-> FALSE,
     all_stories_loaded |-> FALSE, current_list |-> "Top", story_ids |-> <<>>,
     loaded_count |-> 0, fetch_task |-> 0, epoch |-> 0, foreign |-> 0]

\* a task that was not spawned yet; list: the list type fetch_stories was
\* called with, or the listener that spawned fetch_more_stories; ids, batch_size: the batch fetch_more_stories took; start: the
\* loaded_count it read; epoch: the reset count when it took the batch
NoTask ==
    [kind |-> "none", pc |-> "idle", list |-> "none", ids |-> <<>>,
     batch_size |-> 0, start |-> 0, epoch |-> 0]

\* a new AppState, nothing spawned on it
UiIdle ==
    /\ app_state = AppStateNew
    /\ tasks = [t \in TaskIds |-> NoTask]

\* no log buffer in use, a new history, a new AppState
AppIdle ==
    /\ log_buffer = LogBufferNew(0)
    /\ history = HistoryState(HistoryNew, "new")
    /\ UiIdle

Config(mr, d0, dmax, rot, cr, rate_x10) ==
    [max_retries |-> mr, initial_retry_delay_ms |-> d0,
     max_retry_delay_ms |-> dmax, retry_on_timeout |-> rot,
     concurrent_requests |-> cr, rate_limit_x10 |-> rate_x10,
     permits |-> Permits(rate_x10), enable_metrics |-> FALSE]

\* ApiService::with_metrics
WithMetrics(c, enable) == [c EXCEPT !.enable_metrics = enable]

\* pre: the token was cancelled when the batch operation was called;
\* log: the metrics events the batch operation has emitted
IdleBatch == [st |-> "idle", kind |-> "none", ids |-> <<>>, tok |-> "none",
              started |-> 0, results |-> <<>>, ret |-> <<>>, pre |-> FALSE,
              log |-> 0]

IdleCache == [store |-> EmptyStore, ttl |-> 0]
\* op, key, res, at: the last operation on the cache under test, its
\* result and its time;
\* before: the store before that operation; ins: for each key inserted
\* since the last clear whose entry no cleanup has found expired since, the
\* time and the value of its last insert; since: the keys inserted since
\* the last clear; wiped: the keys whose entries a clear has removed
NoProbe == [op |-> "none", key |-> "none", res |-> None, at |-> 0,
            before |-> EmptyStore, ins |-> EmptyStore, since |-> {},
            wiped |-> {}]

\* ApiService::with_config
InitService(c) ==
    /\ cfg = c
    /\ now = 0
    /\ cancelled = {}
    /\ available = c.permits
    /\ inflight_requests = [u \in Urls |-> 0]
    /\ ops = [o \in CallIds |-> NoOp]
    /\ http = [o \in CallIds |-> IdleHttp]
    /\ detached = 0
    /\ calls = [c2 \in CallIds |-> IdleCall]
    /\ story_ids_cache = EmptyStore
    /\ story_cache = EmptyStore
    /\ comment_cache = EmptyStore
    /\ batch = IdleBatch

Init ==
    /\ InitService(Config(0, 1, 2, TRUE, 1, 10))
    /\ cache = IdleCache
    /\ probe = NoProbe
    /\ AppIdle

Next ==
    \/ \E c \in CallIds, l \in ListTypes, t \in Tokens \cup {"none"} :
          Start(c, "ids", l, t)
    \/ \E c \in CallIds : Start(c, "story", HotId, "none")
    \/ \E c \in CallIds : Lookup(c)
    \/ \E c \in CallIds : Insert(c)
    \/ \E c \in CallIds : AwaitReady(c)
    \/ \E c \in CallIds : Remove(c)
    \/ \E c \in CallIds : Finish(c)
    \/ \E c \in CallIds : CancelReturn(c)
    \/ \E t \in Tokens : Cancel(t)
    \/ \E o \in CallIds : OpAcquire(o)
    \/ \E o \in CallIds, out \in {"v1", "bad", "connect"} :
          NetComplete(o, out)
    \/ DetachedComplete
    \/ \E o \in CallIds : OpReceive(o)

Spec == Init /\ [][Next]_vars

----------------------------------------------------------------------------
(* Properties of the service under concurrent callers (Spec).              *)

\* the fetch_raw operations started so far for a URL
StartedFor(u) == {o \in CallIds : ops[o].st # "none" /\ ops[o].url = u}

\* the call has received the output of the future it awaited
Received(c) == calls[c].raw # NoResult

\* C1: while no result is available yet for a URL (every fetch_raw started
\* for it is still unfinished), fetch_raw has been started at most once for
\* that URL, however many callers are in get_json for it.
C1_FetchStartedOnce ==
    \A u \in Urls :
        (\A o \in StartedFor(u) : Unfinished(ops[o]))
            => Cardinality(StartedFor(u)) <= 1

\* the spawned requests issued and not yet completed
RequestsInProgress ==
    Cardinality({o \in CallIds : http[o].st = "running"}) + detached

\* C2: the number of HTTP requests in progress never exceeds the number of
\* permits created at construction.
C2_RequestsWithinPermits == RequestsInProgress <= cfg.permits

\* the fetch_raw operations for the URL that have not returned
Outstanding(u) == {o \in StartedFor(u) : Unfinished(ops[o])}

\* C31: at most one fetch_raw operation per URL is outstanding, and no
\* remove of a waiter has taken out of the map the entry of a running
\* operation other than the one the waiter awaited.
C31_OneOutstandingPerUrl ==
    /\ \A u \in Urls : Cardinality(Outstanding(u)) <= 1
    /\ \A c \in CallIds : ~calls[c].stole

\* no public fetch call is in progress
Quiescent ==
    /\ \A c \in CallIds : calls[c].pc \in {"idle", "done"}
    /\ batch.st \in {"idle", "done"}

\* C32: in every quiescent state inflight_requests holds no entry.
C32_QuiescentMapEmpty ==
    Quiescent => \A u \in Urls : inflight_requests[u] = 0

\* C33: in every quiescent state all the permits of rate_limiter are
\* available.
C33_QuiescentPermitsBack ==
    Quiescent => available = cfg.permits

\* C7 as claimed: a fetch_story_ids call made with a cancelled token returns
\* the cancellation error and never enters get_json, in every state of the
\* service.
C7_CancelledAlwaysErr ==
    \A c \in CallIds :
        (calls[c].kind = "ids" /\ calls[c].pre /\ calls[c].pc = "done")
            => calls[c].ret = ErrRet("cancelled") /\ calls[c].fut = 0

\* C7 amended: such a call never enters get_json (no lookup, no future, no
\* request); it returns the cancellation error unless the cache holds an
\* unexpired list, which it returns instead.
C7_CancelledNoFetch ==
    \A c \in CallIds :
        (calls[c].kind = "ids" /\ calls[c].pre)
            => /\ calls[c].pc \in {"idle", "done"}
               /\ calls[c].fut = 0
               /\ ops[c].st = "none"
               /\ calls[c].pc = "done" =>
                     \/ calls[c].ret = ErrRet("cancelled")
                     \/ /\ calls[c].ret.how = "hit"
                        /\ calls[c].had
                        /\ CacheGetStale(story_ids_cache, calls[c].key)
                              = Some(calls[c].ret.val)

C7_Witness ==
    \E c \in CallIds :
        /\ calls[c].kind = "ids" /\ calls[c].pre /\ calls[c].pc = "done"
        /\ calls[c].ret = ErrRet("cancelled")
        /\ \E d \in CallIds : Unfinished(ops[d]) /\ ops[d].url = CallUrl(c)

\* C9: the callers that received the output of the same shared future hold
\* the same raw outcome, the same body or the same error message.
C9_SameOutcome ==
    \A c, d \in CallIds :
        (Received(c) /\ Received(d) /\ calls[c].fut = calls[d].fut)
            => calls[c].raw = calls[d].raw

C9_Witness ==
    \E c, d \in CallIds :
        /\ c # d /\ Received(c) /\ Received(d)
        /\ calls[c].fut = calls[d].fut
        /\ ~calls[c].raw.ok

\* C10: no call finds in the map, at the start of get_json, a future that
\* has already completed.
C10_NoReplay == \A c \in CallIds : ~calls[c].replay

\* C17: a fetch_story_ids call whose token was cancelled while the call was
\* waiting for its fetch returns the cancellation error, never a list.
C17_CancelMidFlight ==
    \A c \in CallIds :
        (calls[c].kind = "ids" /\ calls[c].mid /\ calls[c].pc = "done")
            => calls[c].ret = ErrRet("cancelled")

\* The scheduling the runtime provides: a task that can make progress is
\* polled, the semaphore serves its waiters, a request sent to the network
\* ends with a response or an error.
FairSpec ==
    /\ Init /\ [][Next]_vars
    /\ \A o \in CallIds :
          /\ WF_vars(OpAcquire(o))
          /\ WF_vars(\E out \in {"v1", "bad", "connect"} : NetComplete(o, out))
          /\ WF_vars(OpReceive(o))
    /\ \A c \in CallIds : WF_vars(AwaitReady(c))

\* caller c was cancelled and dropped its clone of the future on which
\* caller d, which has no token, is still waiting
SharedWithCancelled(c, d) ==
    /\ c # d
    /\ calls[c].pc = "done" /\ calls[c].ret = ErrRet("cancelled")
    /\ calls[c].fut # 0
    /\ calls[d].pc = "await" /\ calls[d].fut = calls[c].fut
    /\ calls[d].tok = "none"

\* d has the result of the one operation it shared, which issued one
\* request; d started no operation in its place
GotSharedResult(d) ==
    /\ Received(d)
    /\ calls[d].raw = ops[calls[d].fut].result
    /\ ops[calls[d].fut].attempt = 1
    /\ calls[d].fut # d => ops[d].st = "none"

Kinds == {"ids", "story", "comment"}

\* call c returns in this step
Returns(c) == calls[c].pc # "done" /\ calls'[c].pc = "done"

\* C35: a step changes a cache only by writing, under the key of a call
\* that returns in that step, the body which that call received from the
\* operation for the URL of the key in a response without an error status
\* and which parses, with a full TTL; no step removes an entry; a step in which a call returns an error of the
\* network, of the parse or of cancellation leaves the three caches as
\* they were.
C35_CacheOnlyFromSuccess ==
    [][/\ \A k \in Kinds :
            /\ DOMAIN CacheOf(k) \subseteq DOMAIN CacheOf(k)'
            /\ \A key \in DOMAIN CacheOf(k)' :
                  (key \notin DOMAIN CacheOf(k) \/ CacheOf(k)'[key] # CacheOf(k)[key])
                  => \E c \in CallIds :
                        /\ Returns(c)
                        /\ calls[c].kind = k /\ calls[c].key = key
                        /\ calls[c].raw.ok /\ ParseOk(calls[c].raw.body)
                        /\ calls[c].raw = ops[calls[c].fut].result
                        /\ ~ops[calls[c].fut].http_error
                        /\ ops[calls[c].fut].url = UrlOf(k, key)
                        /\ calls'[c].ret = OkRet(calls[c].raw.body, "fetched")
                        /\ CacheOf(k)'[key] = [value |-> calls[c].raw.body,
                                               expires_at |-> now + CacheTtlSecs]
       /\ \A c \in CallIds :
            (Returns(c) /\ ~(calls'[c].ret.ok /\ calls'[c].ret.how = "fetched"))
            => cacheSvc' = cacheSvc]_vars

\* C36: the step in which a fetch_story_ids call returns the cancellation
\* error leaves story_ids_cache as it was, and so does every later step of
\* the operation it abandoned: story_ids_cache changes only in the step in
\* which a fetch_story_ids call returns the list it fetched.
C36_CancelledLeavesCache ==
    [][/\ \A c \in CallIds :
            (Returns(c) /\ calls'[c].ret = ErrRet("cancelled"))
            => story_ids_cache' = story_ids_cache
       /\ story_ids_cache' # story_ids_cache =>
            \E c \in CallIds :
                /\ Returns(c) /\ calls[c].kind = "ids"
                /\ calls'[c].ret.ok /\ calls'[c].ret.how = "fetched"]_vars

\* a call returned the cancellation error, the request of the operation
\* it abandoned has ended with a list, and the cache holds no list
C36_Witness ==
    \E c \in CallIds :
        /\ calls[c].kind = "ids" /\ calls[c].pc = "done"
        /\ calls[c].ret = ErrRet("cancelled") /\ calls[c].fly
        /\ calls[c].fut = c
        /\ http[c].st = "ready" /\ http[c].out = "v1"
        /\ \A d \in CallIds \ {c} : calls[d].pc = "idle"
        /\ story_ids_cache = EmptyStore

\* Fair scheduling of every step of the service: the runtime polls every
\* task that can make progress, the semaphore serves its waiters and every
\* request ends.  The callers are free to call and to cancel or not.
LiveSpec ==
    /\ Init /\ [][Next]_vars
    /\ \A c \in CallIds :
          /\ WF_vars(Lookup(c))
          /\ WF_vars(Insert(c))
          /\ WF_vars(AwaitReady(c))
          /\ WF_vars(Remove(c))
          /\ WF_vars(Finish(c))
          /\ WF_vars(CancelReturn(c))
          /\ WF_vars(OpAcquire(c))
          /\ WF_vars(\E out \in {"v1", "bad", "connect"} : NetComplete(c, out))
          /\ WF_vars(OpReceive(c))
    /\ WF_vars(DetachedComplete)

\* C34: under fair scheduling every call of a fetch operation eventually
\* returns.
C34_EveryCallReturns ==
    \A c \in CallIds : (calls[c].pc # "idle") ~> (calls[c].pc = "done")

----------------------------------------------------------------------------
(* fetch_raw alone: one call, every configuration of the retry policy,     *)
(* every outcome of every attempt (RetrySpec).                             *)

FirstCall == {c \in CallIds : \A d \in CallIds : c <= d}

Outcomes == Bodies \cup HttpErrBodies \cup ErrKinds

RetryInit ==
    /\ \E mr \in 0 .. MaxRetriesCfg, d0 \in 0 .. MaxDelayCfg,
          dmax \in 0 .. MaxDelayCfg, rot \in BOOLEAN :
          InitService(Config(mr, d0, dmax, rot, 1, 10))
    /\ cache = IdleCache
    /\ probe = NoProbe
    /\ AppIdle

RetryNext ==
    \/ \E c \in FirstCall : Start(c, "story", HotId, "none")
    \/ \E c \in FirstCall : Lookup(c)
    \/ \E c \in FirstCall : Insert(c)
    \/ \E c \in FirstCall : AwaitReady(c)
    \/ \E c \in FirstCall : Remove(c)
    \/ \E c \in FirstCall : Finish(c)
    \/ \E o \in FirstCall : OpAcquire(o)
    \/ \E o \in FirstCall, out \in Outcomes : NetComplete(o, out)
    \/ \E o \in FirstCall : OpReceive(o)
    \/ \E o \in FirstCall : OpWake(o)

RetrySpec == RetryInit /\ [][RetryNext]_vars

AllConnect(f) == \A i \in 1 .. Len(f) : f[i] = "connect"

\* C3: when every attempt fails with a connection error, fetch_raw returns
\* an error after exactly max_retries + 1 attempts and max_retries sleeps
\* (none with max_retries = 0), and never makes more attempts than that.
C3_AttemptsOnConnectFailure ==
    \A o \in CallIds :
        AllConnect(ops[o].fails) =>
            /\ ops[o].attempt <= cfg.max_retries + 1
            /\ (ops[o].st = "done" /\ ~ops[o].result.ok) =>
                  /\ ops[o].attempt = cfg.max_retries + 1
                  /\ Len(ops[o].fails) = cfg.max_retries + 1
                  /\ Len(ops[o].slept) = cfg.max_retries
                  /\ ops[o].result = ErrResult(ErrMsg("send", ops[o].url))

C3_Witness ==
    \E o \in CallIds :
        /\ ops[o].st = "done" /\ ~ops[o].result.ok
        /\ AllConnect(ops[o].fails)
        /\ cfg.max_retries >= 2
        /\ Len(ops[o].slept) = cfg.max_retries

\* C4: the delay slept after the i-th failed attempt (i = 0 for the first)
\* is min(initial_retry_delay_ms * 2^i, max_retry_delay_ms).
C4_DelayFormula ==
    \A o \in CallIds : \A i \in 1 .. Len(ops[o].slept) :
        ops[o].slept[i] = Min(cfg.initial_retry_delay_ms * 2 ^ (i - 1),
                              cfg.max_retry_delay_ms)

\* the permits of the rate limiter that are not available
PermitsOut == cfg.permits - available

\* C11: a permit is out of the semaphore only while the request of an
\* attempt is in progress (spawned and not yet consumed by fetch_raw): the
\* number of permits taken equals the number of such requests, and it is
\* never taken by an operation that is sleeping for its backoff.
C11_PermitOnlyDuringRequest ==
    /\ PermitsOut = Cardinality({o \in CallIds : http[o].st # "idle"})
    /\ \A o \in CallIds : ops[o].st = "sleep" => ~HoldsPermit(ops[o])

\* the failures that are neither a timeout nor a connection failure
Fatal(kind) == ~IsTimeout(kind) /\ ~IsConnect(kind)

\* C12: a failure that is neither a timeout nor a connection failure is the
\* last attempt of its operation: the operation is finished with the error
\* naming the URL, and no sleep follows that attempt.
C12_FatalEndsFetch ==
    \A o \in CallIds : \A i \in 1 .. Len(ops[o].fails) :
        Fatal(ops[o].fails[i]) =>
            /\ i = Len(ops[o].fails)
            /\ ops[o].attempt = i
            /\ Len(ops[o].slept) = i - 1
            /\ ops[o].st = "done"
            /\ ~ops[o].result.ok
            /\ ops[o].result.err.url = ops[o].url
            /\ http[o].st = "idle"

C12_Witness ==
    \E o \in CallIds :
        /\ Len(ops[o].fails) = 2
        /\ ops[o].fails[2] = "other"
        /\ cfg.max_retries = 2
        /\ calls[o].pc = "done"
        /\ calls[o].ret = ErrRet("network")

\* C13: with retry_on_timeout = false an attempt that fails with a timeout
\* error is the last one; with retry_on_timeout = true an attempt that fails
\* with a timeout and is not beyond max_retries is followed by a sleep and
\* another attempt, as after a connection failure.
C13_TimeoutRetry ==
    \A o \in CallIds : \A i \in 1 .. Len(ops[o].fails) :
        IsTimeout(ops[o].fails[i]) =>
            IF cfg.retry_on_timeout
            THEN i <= cfg.max_retries =>
                    Len(ops[o].slept) >= i /\ ops[o].attempt >= i
            ELSE i = Len(ops[o].fails) /\ ops[o].st = "done"

\* C23: an item call whose request was answered with an HTTP error status
\* returns an error and leaves no entry for the id in its cache.
C23_HttpErrorIsError ==
    \A c \in CallIds :
        (calls[c].kind \in {"story", "comment"} /\ calls[c].pc = "done"
            /\ Received(c) /\ ops[calls[c].fut].http_error)
        => /\ ~calls[c].ret.ok
           /\ calls[c].key \notin DOMAIN CacheOf(calls[c].kind)

----------------------------------------------------------------------------
(* A Cache<T> on its own, under every sequence of its operations and       *)
(* clock advances (CacheSpec).                                             *)

CacheKeys == {"key1", "key2"}

Probe(op, key, res, ins) ==
    [op |-> op, key |-> key, res |-> res, at |-> now,
     before |-> cache.store, ins |-> ins,
     since |-> IF op = "clear" THEN {}
               ELSE IF op = "insert" THEN probe.since \cup {key}
               ELSE probe.since,
     wiped |-> IF op = "clear" THEN probe.wiped \cup DOMAIN cache.store
               ELSE probe.wiped]

\* Cache::new(ttl_seconds)
CacheInit ==
    /\ InitService(Config(0, 1, 2, TRUE, 1, 10))
    /\ \E d \in 0 .. MaxTtl : cache = [store |-> EmptyStore, ttl |-> d]
    /\ probe = NoProbe
    /\ AppIdle

\* cache.insert(key, value)
TInsert(k, v) ==
    /\ cache' = [cache EXCEPT !.store = CacheInsert(@, k, v, now, cache.ttl)]
    /\ probe' = Probe("insert", k, None,
                      [x \in DOMAIN probe.ins \cup {k} |->
                          IF x = k THEN [t |-> now, v |-> v] ELSE probe.ins[x]])
    /\ UNCHANGED <<svcVars, appVars>>

\* cache.get(key): a read under the read lock
TGet(k) ==
    /\ probe' = Probe("get", k, CacheGet(cache.store, k, now), probe.ins)
    /\ UNCHANGED <<cache, svcVars, appVars>>

\* cache.get_stale(key)
TGetStaleAsGet(k) ==
    /\ probe' = Probe("get_stale", k, CacheGet(cache.store, k, now), probe.ins)
    /\ UNCHANGED <<cache, svcVars, appVars>>

TGetStale(k) ==
    /\ probe' = Probe("get_stale", k, CacheGetStale(cache.store, k), probe.ins)
    /\ UNCHANGED <<cache, svcVars, appVars>>

\* cache.cleanup()
TCleanup ==
    /\ cache' = [cache EXCEPT !.store = CacheCleanup(@, now)]
    /\ probe' = Probe("cleanup", "none", None,
                      [x \in {y \in DOMAIN probe.ins :
                                 now < probe.ins[y].t + cache.ttl} |-> probe.ins[x]])
    /\ UNCHANGED <<svcVars, appVars>>

\* cache.clear()
TClear ==
    /\ cache' = [cache EXCEPT !.store = CacheClear(@)]
    /\ probe' = Probe("clear", "none", None, EmptyStore)
    /\ UNCHANGED <<svcVars, appVars>>

\* one second passes
TTick ==
    /\ now < MaxClock
    /\ now' = now + 1
    /\ UNCHANGED <<cfg, cancelled, available, inflight_requests, ops, http,
                   detached, calls, cacheSvc, batch, cacheVars, appVars>>

CacheNext ==
    \/ \E k \in CacheKeys, v \in GoodBodies : TInsert(k, v)
    \/ \E k \in CacheKeys : TGet(k)
    \/ \E k \in CacheKeys : TGetStale(k)
    \/ TCleanup
    \/ TClear
    \/ TTick

CacheSpec == CacheInit /\ [][CacheNext]_vars

\* what get(k) has to return at time t, from the history of inserts
Expected(k, t) ==
    IF k \in DOMAIN probe.ins /\ t < probe.ins[k].t + cache.ttl
    THEN Some(probe.ins[k].v) ELSE None

\* C5: get(k) returns the value last inserted for k at every time before
\* insert time + TTL and None from then on, None for a key not inserted,
\* and get leaves the store as it was.
C5_GetWithinTtl ==
    /\ \A k \in CacheKeys : CacheGet(cache.store, k, now) = Expected(k, now)
    /\ probe.op = "get" =>
          /\ probe.res = Expected(probe.key, probe.at)
          /\ cache.store = probe.before

C5_Witness ==
    /\ probe.op = "get"
    /\ probe.key \in DOMAIN probe.ins
    /\ cache.ttl > 0
    /\ probe.at = probe.ins[probe.key].t + cache.ttl
    /\ probe.res = None
    /\ probe.key \in DOMAIN cache.store

\* C14: get_stale(k) returns the value last inserted for k, expired or not,
\* as long as no clear and no cleanup that found the entry expired has run
\* since that insert, and None when there is no such insert.
C14_GetStaleAfterExpiry ==
    probe.op = "get_stale" =>
        /\ probe.res = IF probe.key \in DOMAIN probe.ins
                       THEN Some(probe.ins[probe.key].v) ELSE None
        /\ cache.store = probe.before

C14_Witness ==
    /\ probe.op = "get_stale"
    /\ probe.key \in DOMAIN probe.ins
    /\ cache.ttl > 0
    /\ probe.at > probe.ins[probe.key].t + cache.ttl
    /\ probe.res = Some(probe.ins[probe.key].v)
    /\ CacheGet(cache.store, probe.key, probe.at) = None

\* C15: after insert(k, v) at time t the entry of k is v with
\* expires_at = t + ttl, whatever entry k had before, and every other key
\* has the entry it had before, or none if it had none.
C15_InsertReplaces ==
    probe.op = "insert" =>
        /\ probe.key \in DOMAIN cache.store
        /\ cache.store[probe.key] = [value |-> probe.ins[probe.key].v,
                                     expires_at |-> probe.at + cache.ttl]
        /\ DOMAIN cache.store = DOMAIN probe.before \cup {probe.key}
        /\ \A k \in DOMAIN probe.before \ {probe.key} :
              cache.store[k] = probe.before[k]

C15_Witness ==
    /\ probe.op = "insert"
    /\ probe.key \in DOMAIN probe.before
    /\ probe.before[probe.key].expires_at > probe.at
    /\ probe.before[probe.key].expires_at < probe.at + cache.ttl
    /\ probe.before[probe.key].value # cache.store[probe.key].value
    /\ DOMAIN probe.before \ {probe.key} # {}

\* C16: cleanup() at time t leaves exactly the entries with expires_at > t,
\* each as it was, and get(k) at time t gives the same result on the store
\* before and after, for every key.
C16_CleanupRemovesExpired ==
    probe.op = "cleanup" =>
        /\ DOMAIN cache.store
              = {k \in DOMAIN probe.before : probe.before[k].expires_at > probe.at}
        /\ \A k \in DOMAIN cache.store : cache.store[k] = probe.before[k]
        /\ \A k \in CacheKeys :
              CacheGet(cache.store, k, probe.at)
                = CacheGet(probe.before, k, probe.at)

C16_Witness ==
    /\ probe.op = "cleanup"
    /\ \E k \in DOMAIN probe.before : probe.before[k].expires_at = probe.at
    /\ cache.store # EmptyStore
    /\ cache.store # probe.before
    /\ now = probe.at

----------------------------------------------------------------------------
(* Item fetches across expiry of the cache entries (StaleSpec).            *)

StaleInit == Init

StaleNext ==
    \/ \E c \in CallIds, k \in {"story", "comment"} : Start(c, k, HotId, "none")
    \/ \E c \in CallIds : Lookup(c)
    \/ \E c \in CallIds : Insert(c)
    \/ \E c \in CallIds : AwaitReady(c)
    \/ \E c \in CallIds : Remove(c)
    \/ \E c \in CallIds : Finish(c)
    \/ Tick
    \/ \E o \in CallIds : OpAcquire(o)
    \/ \E o \in CallIds, out \in {"v1", "v2", "bad", "connect"} :
          NetComplete(o, out)
    \/ \E o \in CallIds : OpReceive(o)

StaleSpec == StaleInit /\ [][StaleNext]_vars

\* the fetch of the call failed: a network error or an unparsable body
FetchFailed(c) ==
    Received(c) /\ ~(calls[c].raw.ok /\ ParseOk(calls[c].raw.body))

\* C6: an item call made when the cache held an entry for the id (an earlier
\* call had fetched and cached it) and whose own fetch fails returns a value
\* that an earlier call fetched and cached, not an error.
C6_StaleFallback ==
    \A c \in CallIds :
        (calls[c].pc = "done" /\ calls[c].kind \in {"story", "comment"}
            /\ calls[c].had /\ FetchFailed(c))
        => /\ calls[c].ret.ok
           /\ calls[c].ret.how = "stale"
           /\ \E d \in CallIds \ {c} :
                 /\ calls[d].kind = calls[c].kind
                 /\ calls[d].key = calls[c].key
                 /\ calls[d].ret.how = "fetched"
                 /\ calls[d].ret.val = calls[c].ret.val

C6_Witness ==
    \E c \in CallIds :
        /\ calls[c].pc = "done" /\ calls[c].kind = "story"
        /\ calls[c].had /\ FetchFailed(c) /\ ~calls[c].raw.ok
        /\ calls[c].ret.how = "stale"
        /\ now >= CacheTtlSecs

----------------------------------------------------------------------------
(* Fetches of a story whose cache entry, written by a fetch at time 0,     *)
(* expires (RefetchSpec).                                                  *)

\* the entry of the story in story_cache at the start
SeenEntry == [value |-> "v1", expires_at |-> CacheTtlSecs]

\* the service at rest after a fetch of the story at time 0
RefetchInit ==
    /\ cfg = Config(0, 1, 2, TRUE, 1, 10)
    /\ now = 0
    /\ cancelled = {}
    /\ available = cfg.permits
    /\ inflight_requests = [u \in Urls |-> 0]
    /\ ops = [o \in CallIds |-> NoOp]
    /\ http = [o \in CallIds |-> IdleHttp]
    /\ detached = 0
    /\ calls = [c \in CallIds |-> IdleCall]
    /\ story_ids_cache = EmptyStore
    /\ story_cache = CacheInsert(EmptyStore, HotId, "v1", 0, CacheTtlSecs)
    /\ comment_cache = EmptyStore
    /\ batch = IdleBatch
    /\ cache = IdleCache
    /\ probe = NoProbe
    /\ AppIdle

RefetchNext ==
    \/ \E c \in CallIds : Start(c, "story", HotId, "none")
    \/ \E c \in CallIds : Lookup(c)
    \/ \E c \in CallIds : Insert(c)
    \/ \E c \in CallIds : AwaitReady(c)
    \/ \E c \in CallIds : Remove(c)
    \/ \E c \in CallIds : Finish(c)
    \/ Tick
    \/ \E o \in CallIds : OpAcquire(o)
    \/ \E o \in CallIds, out \in {"v2", "bad", "connect", "other"} :
          NetComplete(o, out)
    \/ \E o \in CallIds : OpReceive(o)

RefetchSpec == RefetchInit /\ [][RefetchNext]_vars

\* no call has fetched a value for the key
NeverFetched(kind, key) ==
    \A x \in CallIds :
        ~(calls[x].kind = kind /\ calls[x].key = key
            /\ calls[x].ret.ok /\ calls[x].ret.how = "fetched")

\* C37: the step in which a story or comment call returns the stale value
\* leaves the caches as they were, value and expiry; and a call made for
\* the id after such a return, when nothing has been fetched for the id in
\* between, is not served from the cache: it goes on to get_json.
C37_StaleLeavesEntry ==
    [][/\ \A c \in CallIds :
            (Returns(c) /\ calls'[c].ret.ok /\ calls'[c].ret.how = "stale")
            => cacheSvc' = cacheSvc
       /\ \A d \in CallIds :
            (calls[d].pc = "idle" /\ calls'[d].pc # "idle"
                /\ ReturnedStale(calls'[d].kind, calls'[d].key) # {}
                /\ NeverFetched(calls'[d].kind, calls'[d].key))
            => calls'[d].pc = "lookup"]_vars

C37_Witness ==
    \E c, d \in CallIds :
        /\ calls[c].pc = "done" /\ calls[c].ret = OkRet("v1", "stale")
        /\ calls[d].post /\ calls[d].kind = "story" /\ calls[d].key = HotId
        /\ calls[d].fut = d /\ http[d].st = "running"
        /\ story_cache[HotId] = SeenEntry

----------------------------------------------------------------------------
(* Repeated fetches of one list, one story and one comment while the       *)
(* entries are fresh and after they expire (HitSpec).                      *)

HitInit == Init

HitNext ==
    \/ \E c \in CallIds, l \in ListTypes : Start(c, "ids", l, "none")
    \/ \E c \in CallIds, k \in {"story", "comment"} : Start(c, k, HotId, "none")
    \/ \E c \in CallIds : Lookup(c)
    \/ \E c \in CallIds : Insert(c)
    \/ \E c \in CallIds : AwaitReady(c)
    \/ \E c \in CallIds : Remove(c)
    \/ \E c \in CallIds : Finish(c)
    \/ Tick
    \/ \E o \in CallIds : OpAcquire(o)
    \/ \E o \in CallIds, out \in {"v1", "v2", "connect"} : NetComplete(o, out)
    \/ \E o \in CallIds : OpReceive(o)

HitSpec == HitInit /\ [][HitNext]_vars

\* C19: a call made less than one TTL after a call for the same list (or
\* the same story, the same comment) fetched it and returned has returned at
\* once with a fetched value from the cache: it never entered get_json,
\* created no operation and issued no request, whatever the server does.
C19_HitWithinTtl ==
    \A c \in CallIds :
        calls[c].seen # {} =>
            /\ calls[c].pc = "done"
            /\ calls[c].ret.ok /\ calls[c].ret.how = "hit"
            /\ calls[c].ret.val \in calls[c].seen
            /\ calls[c].fut = 0
            /\ ops[c].st = "none" /\ http[c].st = "idle"

C19_Witness ==
    \E c, d \in CallIds :
        /\ calls[d].kind = "ids" /\ calls[d].ret = OkRet("v2", "fetched")
        /\ calls[c].kind = "ids" /\ calls[c].key = calls[d].key
        /\ calls[c].seen = {"v2"}
        /\ calls[c].ret = OkRet("v2", "hit")

\* C27: clear() leaves the cache empty: len() is 0, is_empty() is true,
\* and get(k) and get_stale(k) are None for every key k, whatever the
\* entries were, from the clear until the next insert of k.
C27_ClearEmpties ==
    /\ probe.op = "clear" =>
          /\ cache.store = EmptyStore
          /\ CacheLen(cache.store) = 0
          /\ CacheIsEmpty(cache.store)
    /\ \A k \in CacheKeys \ probe.since :
          /\ CacheGet(cache.store, k, now) = None
          /\ CacheGetStale(cache.store, k) = None
    /\ (probe.op \in {"get", "get_stale"} /\ probe.key \notin probe.since) =>
          probe.res = None

C27_Witness ==
    /\ probe.op = "get_stale" /\ probe.res = None
    /\ probe.key \in probe.wiped \ probe.since
    /\ probe.since # {}
    /\ CacheLen(cache.store) = 1

----------------------------------------------------------------------------
(* Failing fetches of one list and one story under a retry policy with one *)
(* retry, with the cache entries fresh, expired or absent (ErrorSpec).     *)

ErrorInit ==
    /\ InitService(Config(1, 1, 2, TRUE, 1, 10))
    /\ cache = IdleCache
    /\ probe = NoProbe
    /\ AppIdle

ErrorNext ==
    \/ \E c \in CallIds, l \in ListTypes : Start(c, "ids", l, "none")
    \/ \E c \in CallIds : Start(c, "story", HotId, "none")
    \/ \E c \in CallIds : Lookup(c)
    \/ \E c \in CallIds : Insert(c)
    \/ \E c \in CallIds : AwaitReady(c)
    \/ \E c \in CallIds : Remove(c)
    \/ \E c \in CallIds : Finish(c)
    \/ Tick
    \/ \E o \in CallIds : OpAcquire(o)
    \/ \E o \in CallIds, out \in {"v1", "bad", "connect"} : NetComplete(o, out)
    \/ \E o \in CallIds : OpReceive(o)
    \/ \E o \in CallIds : OpWake(o)

ErrorSpec == ErrorInit /\ [][ErrorNext]_vars

\* the body the call received does not deserialize
ParseFailed(c) == Received(c) /\ calls[c].raw.ok /\ ~ParseOk(calls[c].raw.body)

\* the operation ended with the response it received last: no attempt and
\* no sleep followed, and every earlier attempt was a failed send
NotRetriedAfterBody(op) ==
    /\ op.st = "done" /\ op.result.ok
    /\ Len(op.fails) = op.attempt - 1
    /\ Len(op.slept) = op.attempt - 1

\* the values held by the cache of the kind were fetched and parsed by calls
CacheHoldsFetched(kind, key) ==
    key \in DOMAIN CacheOf(kind) =>
        \E d \in CallIds :
            /\ calls[d].kind = kind /\ calls[d].key = key
            /\ calls[d].ret = OkRet(CacheOf(kind)[key].value, "fetched")

C25_IdsErrorNoStale ==
    [][\A c \in CallIds :
          (calls[c].kind = "ids" /\ calls[c].pc = "finish"
              /\ ~calls[c].raw.ok /\ calls'[c].pc = "done")
          => /\ calls'[c].ret = ErrRet("network")
             /\ calls'[c].ctx
                  = <<ErrMsg("fetch_story_ids failed", CallUrl(c)), calls[c].raw.err>>
             /\ calls[c].raw.err.url = CallUrl(c)
             /\ story_ids_cache' = story_ids_cache]_vars

C25_Witness ==
    \E c \in CallIds :
        /\ calls[c].kind = "ids" /\ calls[c].pc = "done"
        /\ calls[c].ret = ErrRet("network")
        /\ Len(ops[calls[c].fut].fails) = 2
        /\ CacheGetStale(story_ids_cache, calls[c].key).some
        /\ ~CacheGet(story_ids_cache, calls[c].key, now).some

----------------------------------------------------------------------------
(* fetch_stories_concurrent / fetch_comments_concurrent: one batch, whose  *)
(* items are the calls 1 .. Len(ids) (BatchSpec).                          *)

\* the item futures in the buffer of buffer_unordered
InProgress == {c \in CallIds : calls[c].item /\ calls[c].pc # "done"}

\* results.into_iter().filter_map(|r| r.ok()).collect()
OkValues(results) ==
    LET oks == SelectSeq(results, LAMBDA r : r.ok)
    IN  [i \in 1 .. Len(oks) |-> oks[i].val]

\* the call of the batch operation: the token is checked before starting
BatchCall(kind, ids, tok) ==
    /\ batch.st = "idle"
    /\ batch' = [IdleBatch EXCEPT
                    !.st = IF PreCancelled(tok) THEN "done" ELSE "running",
                    !.kind = kind, !.ids = ids, !.tok = tok,
                    !.pre = (tok \in cancelled)]
    /\ UNCHANGED <<cfg, now, cancelled, available, inflight_requests, ops, http,
                   detached, calls, cacheSvc, cacheVars, appVars>>

\* buffer_unordered(limit) takes the next id while fewer than limit items
\* are in progress; the item checks the token, then runs the item fetch up
\* to get_json
BatchSpawnUnbounded ==
    /\ batch.st = "running"
    /\ batch.started < Len(batch.ids)
    /\ \A d \in CallIds : ~MidPoll(d)
    /\ LET c == batch.started + 1
       IN  /\ IF PreCancelled(batch.tok)
              THEN calls' = [calls EXCEPT ![c] =
                               [IdleCall EXCEPT !.pc = "done", !.kind = batch.kind,
                                                !.key = batch.ids[c], !.item = TRUE,
                                                !.tok = batch.tok, !.pre = TRUE,
                                                !.ret = ErrRet("cancelled")]]
              ELSE Enter(c, batch.kind, batch.ids[c], batch.tok, 1)
           /\ batch' = [batch EXCEPT
                          !.started = c,
                          !.results = IF calls'[c].pc = "done"
                                      THEN Append(@, calls'[c].ret) ELSE @]
    /\ UNCHANGED <<cfg, now, cancelled, available, inflight_requests, ops, http,
                   detached, cacheSvc, cacheVars, appVars>>

BatchSpawnNoTokenCheck ==
    /\ batch.st = "running"
    /\ batch.started < Len(batch.ids)
    /\ Cardinality(InProgress) < cfg.concurrent_requests
    /\ \A d \in CallIds : ~MidPoll(d)
    /\ LET c == batch.started + 1
       IN  /\ Enter(c, batch.kind, batch.ids[c], batch.tok, 1)
           /\ batch' = [batch EXCEPT
                          !.started = c,
                          !.results = IF calls'[c].pc = "done"
                                      THEN Append(@, calls'[c].ret) ELSE @]
    /\ UNCHANGED <<cfg, now, cancelled, available, inflight_requests, ops, http,
                   detached, cacheSvc, cacheVars, appVars>>

BatchSpawn ==
    /\ batch.st = "running"
    /\ batch.started < Len(batch.ids)
    /\ Cardinality(InProgress) < cfg.concurrent_requests
    /\ \A d \in CallIds : ~MidPoll(d)
    /\ LET c == batch.started + 1
       IN  /\ IF PreCancelled(batch.tok)
              THEN calls' = [calls EXCEPT ![c] =
                               [IdleCall EXCEPT !.pc = "done", !.kind = batch.kind,
                                                !.key = batch.ids[c], !.item = TRUE,
                                                !.tok = batch.tok, !.pre = TRUE,
                                                !.ret = ErrRet("cancelled")]]
              ELSE Enter(c, batch.kind, batch.ids[c], batch.tok, 1)
           /\ batch' = [batch EXCEPT
                          !.started = c,
                          !.results = IF calls'[c].pc = "done"
                                      THEN Append(@, calls'[c].ret) ELSE @]
    /\ UNCHANGED <<cfg, now, cancelled, available, inflight_requests, ops, http,
                   detached, cacheSvc, cacheVars, appVars>>

\* collect() ends when the id list is exhausted and no item is in progress;
\* the successes are returned
BatchReturnAllOrNothing ==
    /\ batch.st = "running"
    /\ batch.started = Len(batch.ids)
    /\ InProgress = {}
    /\ cfg.concurrent_requests > 0
    /\ batch' = [batch EXCEPT
                   !.st = "done",
                   !.ret = IF \E i \in 1 .. Len(batch.results) : ~batch.results[i].ok
                           THEN <<>> ELSE OkValues(batch.results)]
    /\ UNCHANGED <<cfg, now, cancelled, available, inflight_requests, ops, http,
                   detached, calls, cacheSvc, cacheVars, appVars>>

\* the batch at its return; m is enable_metrics: the count is logged
Returned(m) ==
    [batch EXCEPT !.st = "done", !.ret = OkValues(batch.results),
                  !.log = @ + Emit(m)]

BatchReturn ==
    /\ batch.st = "running"
    /\ batch.started = Len(batch.ids)
    /\ InProgress = {}
    /\ cfg.concurrent_requests > 0
    /\ batch' = Returned(cfg.enable_metrics)
    /\ UNCHANGED <<cfg, now, cancelled, available, inflight_requests, ops, http,
                   detached, calls, cacheSvc, cacheVars, appVars>>

IdLists == UNION {[1 .. n -> ItemIds] : n \in 0 .. NCalls}

BatchInit ==
    /\ \E cr \in 1 .. NCalls : InitService(Config(0, 1, 2, TRUE, cr, 10))
    /\ cache = IdleCache
    /\ probe = NoProbe
    /\ AppIdle

BatchNext ==
    \/ \E k \in {"story", "comment"}, ids \in IdLists, t \in Tokens \cup {"none"} :
          BatchCall(k, ids, t)
    \/ BatchSpawn
    \/ \E c \in CallIds : Lookup(c)
    \/ \E c \in CallIds : Insert(c)
    \/ \E c \in CallIds : AwaitReady(c)
    \/ \E c \in CallIds : Remove(c)
    \/ \E c \in CallIds : Finish(c)
    \/ \E t \in Tokens : Cancel(t)
    \/ \E o \in CallIds : OpAcquire(o)
    \/ \E o \in CallIds, out \in {"v1", "v2", "connect"} : NetComplete(o, out)
    \/ \E o \in CallIds : OpReceive(o)
    \/ BatchReturn

BatchSpec == BatchInit /\ [][BatchNext]_vars

\* the number of v in the sequence q
Count(q, v) == Cardinality({i \in 1 .. Len(q) : q[i] = v})

\* C8: a batch that has returned holds one value per item fetch that
\* succeeded and nothing else: its length is the number of successful
\* items, every value occurs as often as items returned it, and the values
\* are in the order in which the items completed.
C8_BatchPartialResults ==
    batch.st = "done" =>
        LET items == 1 .. batch.started
            okItems == {c \in items : calls[c].ret.ok}
        IN  /\ \A c \in items : calls[c].pc = "done"
            /\ Len(batch.ret) = Cardinality(okItems)
            /\ \A v \in GoodBodies :
                  Count(batch.ret, v)
                    = Cardinality({c \in okItems : calls[c].ret.val = v})
            /\ batch.ret = OkValues(batch.results)

\* C20: the number of item fetches in progress (taken from the id list by
\* buffer_unordered and not yet finished) never exceeds concurrent_requests.
C20_BatchConcurrencyLimit == Cardinality(InProgress) <= cfg.concurrent_requests

C20_Witness ==
    /\ batch.st = "running"
    /\ batch.started < Len(batch.ids)
    /\ Cardinality(InProgress) = cfg.concurrent_requests
    /\ \E c \in InProgress : calls[c].fut = c /\ http[c].st = "running"

\* C21: an item of a batch whose processing starts when the token is
\* cancelled ends at once with the cancellation error: no cache lookup, no
\* future, no request, and no value of it in the result; a batch called
\* with a cancelled token never starts an item and returns the empty vector.
C21_BatchTokenPerItem ==
    /\ \A c \in CallIds :
          (calls[c].item /\ calls[c].pre) =>
              /\ calls[c].pc = "done"
              /\ calls[c].ret = ErrRet("cancelled")
              /\ calls[c].fut = 0
              /\ ops[c].st = "none" /\ http[c].st = "idle"
    /\ batch.st = "done" =>
          Len(batch.ret)
            <= Cardinality({c \in 1 .. batch.started : ~calls[c].pre})
    /\ batch.pre =>
          /\ batch.st = "done" /\ batch.started = 0 /\ batch.ret = <<>>
          /\ \A o \in CallIds : ops[o].st = "none" /\ http[o].st = "idle"

C21_Witness ==
    /\ batch.st = "done" /\ ~batch.pre
    /\ batch.started = 2
    /\ batch.ids[1] = batch.ids[2]
    /\ calls[1].ret.how = "fetched"
    /\ calls[2].pre /\ calls[2].ret = ErrRet("cancelled")
    /\ Len(batch.ret) = 1
    /\ CacheGet(CacheOf(batch.kind), batch.ids[2], now).some

\* C22: an item whose request was running when the token was cancelled
\* contributes nothing to the vector the batch returns.
C22_InFlightItemsDropped ==
    batch.st = "done" =>
        Len(batch.ret)
          <= Cardinality({c \in 1 .. batch.started :
                            calls[c].ret.ok /\ ~calls[c].fly})

C8_Witness ==
    /\ batch.st = "done"
    /\ batch.started = 2
    /\ calls[1].ret.how = "network"
    /\ calls[2].ret.how = "fetched"
    /\ batch.ret = <<calls[2].ret.val>>

----------------------------------------------------------------------------
(* A batch of stories on a service built with or without with_metrics      *)
(* (MetricsSpec).                                                          *)

MetricsInit ==
    /\ \E e \in BOOLEAN :
          InitService(WithMetrics(Config(1, 1, 2, TRUE, NCalls, 10), e))
    /\ cache = IdleCache
    /\ probe = NoProbe
    /\ AppIdle

MetricsNext ==
    \/ \E ids \in IdLists : BatchCall("story", ids, "none")
    \/ BatchSpawn
    \/ \E c \in CallIds : Lookup(c)
    \/ \E c \in CallIds : Insert(c)
    \/ \E c \in CallIds : AwaitReady(c)
    \/ \E c \in CallIds : Remove(c)
    \/ \E c \in CallIds : Finish(c)
    \/ \E o \in CallIds : OpAcquire(o)
    \/ \E o \in CallIds, out \in {"v1", "bad", "connect"} : NetComplete(o, out)
    \/ \E o \in CallIds : OpReceive(o)
    \/ \E o \in CallIds : OpWake(o)
    \/ BatchReturn

MetricsSpec == MetricsInit /\ [][MetricsNext]_vars

\* C26: at every point where the code looks at enable_metrics, the step
\* taken with the flag set and the step taken with the flag clear leave
\* the same call, operation and batch (hence the same network calls, cache
\* and in-flight-map updates and results), the emitted events aside; with
\* the flag clear nothing is emitted.
C26_MetricsSameEffects ==
    /\ \A c \in CallIds :
          /\ calls[c].pc = "idle" =>
                \A k \in {"ids", "story", "comment"}, id \in ItemIds, p \in {0, 1} :
                    Unlogged(Entered(k, id, "none", p, TRUE))
                        = Unlogged(Entered(k, id, "none", p, FALSE))
          /\ calls[c].pc = "lookup" =>
                Unlogged(LookupCall(c, TRUE)) = Unlogged(LookupCall(c, FALSE))
          /\ calls[c].pc = "finish" =>
                Unlogged(FinishCall(c, TRUE)) = Unlogged(FinishCall(c, FALSE))
          /\ (ops[c].st = "send" /\ http[c].st = "ready") =>
                Unlogged(ReceiveOp(c, TRUE)) = Unlogged(ReceiveOp(c, FALSE))
    /\ batch.st = "running" => Unlogged(Returned(TRUE)) = Unlogged(Returned(FALSE))
    /\ ~cfg.enable_metrics =>
          /\ batch.log = 0
          /\ \A c \in CallIds : calls[c].log = 0 /\ ops[c].log = 0

C26_Witness ==
    /\ cfg.enable_metrics
    /\ batch.st = "done" /\ batch.log = 1 /\ Len(batch.ret) = 2
    /\ \E c, d \in CallIds :
          /\ c # d /\ calls[c].fut = c /\ calls[d].fut = c
          /\ ops[c].log = 1 /\ ops[c].attempt = 2
          /\ calls[c].log = 2 /\ calls[d].log = 3

----------------------------------------------------------------------------
(* A LogBuffer of any small capacity under appends (LogSpec).              *)

LogLines == {"Log 1", "Log 2"}

LogInit ==
    /\ InitService(Config(0, 1, 2, TRUE, 1, 10))
    /\ cache = IdleCache
    /\ probe = NoProbe
    /\ \E c \in 0 .. MaxCap : log_buffer = LogBufferNew(c)
    /\ history = HistoryState(HistoryNew, "new")
    /\ UiIdle

\* buffer.append(line)
LAppend(line) ==
    /\ Len(log_buffer.appended) < MaxAppends
    /\ log_buffer' = [log_buffer EXCEPT
                         !.lines = LogBufferAppend(@, log_buffer.capacity, line),
                         !.appended = Append(@, line)]
    /\ UNCHANGED <<svcVars, cacheVars, history, uiVars>>

\* buffer.clear()
LClear ==
    /\ log_buffer.appended # <<>>
    /\ log_buffer' = [log_buffer EXCEPT !.lines = LogBufferClear(@),
                                        !.appended = <<>>]
    /\ UNCHANGED <<svcVars, cacheVars, history, uiVars>>

LogNext ==
    \/ \E line \in LogLines : LAppend(line)
    \/ LClear

LogSpec == LogInit /\ [][LogNext]_vars

\* the last n elements of q
LastN(q, n) == SubSeq(q, Len(q) - n + 1, Len(q))

\* C28: after any appends to a buffer of capacity c, get_lines() returns
\* the most recent min(n, c) of the n appended lines in append order, and
\* never more than c lines, for every capacity c.
C28_BoundedFifo ==
    LET got == LogBufferGetLines(log_buffer.lines)
        n == Len(log_buffer.appended)
    IN  /\ got = LastN(log_buffer.appended, Min(n, log_buffer.capacity))
        /\ Len(got) <= log_buffer.capacity

----------------------------------------------------------------------------
(* A History, new or loaded from a file, under adds (HistorySpec).         *)

\* the list save() writes after n views of n stories: ids n .. 1
Descending(n) == [i \in 1 .. n |-> ViewedStory(n - i + 1, 0)]

\* short lists of any content, repeated ids included
ShortLists ==
    UNION {[1 .. n -> {ViewedStory(i, 0) : i \in 1 .. 2}] : n \in 0 .. 3}

HistoryFiles ==
    {NoFile, BadFile}
        \cup {GoodFile(Descending(n)) : n \in 0 .. MaxLoaded}
        \cup {GoodFile(q) : q \in ShortLists}

AddIds == {0, 1, 2}

HistoryInit ==
    /\ InitService(Config(0, 1, 2, TRUE, 1, 10))
    /\ cache = IdleCache
    /\ probe = NoProbe
    /\ log_buffer = LogBufferNew(0)
    /\ \/ history = HistoryState(HistoryNew, "new")
       \/ \E f \in HistoryFiles : history = HistoryState(HistoryLoad(f), "load")
    /\ UiIdle

\* history.add(&story): viewed_at is the time of the add
HAdd(id) ==
    /\ history.adds < MaxAdds
    /\ history' = [history EXCEPT
                      !.history = HistoryAdd(@, id, history.adds + 1),
                      !.op = "add", !.before = history.history,
                      !.added = id, !.adds = @ + 1]
    /\ UNCHANGED <<svcVars, cacheVars, log_buffer, uiVars>>

\* history.clear()
HClear ==
    /\ history.history # <<>>
    /\ history' = [history EXCEPT !.history = HistoryClear(@), !.op = "clear",
                                  !.before = history.history]
    /\ UNCHANGED <<svcVars, cacheVars, log_buffer, uiVars>>

HistoryNext ==
    \/ \E id \in AddIds : HAdd(id)
    \/ HClear

HistorySpec == HistoryInit /\ [][HistoryNext]_vars

\* C29: after any add the history holds at most MAX_HISTORY_SIZE entries,
\* whatever it held before, new or loaded from the file.
C29_HistoryBounded ==
    history.op = "add" => HistoryCount(history.history) <= MAX_HISTORY_SIZE

NoDuplicates(h) == \A i, j \in 1 .. Len(h) : h[i].id = h[j].id => i = j

\* C30: after add(story) the entry of story.id is at the front, no other
\* entry has that id, and the other entries are those held before in the
\* same order, the last one aside when the maximum was exceeded; a history
\* without repeated ids stays without.
C30_AddMovesToFront ==
    history.op = "add" =>
        LET h == history.history
            others == SelectSeq(history.before, LAMBDA s : s.id # history.added)
        IN  /\ h # <<>>
            /\ h[1].id = history.added
            /\ h[1].viewed_at = history.adds
            /\ \A i \in 2 .. Len(h) : h[i].id # history.added
            /\ Len(others) - Len(Tail(h)) \in {0, 1}
            /\ Tail(h) = SubSeq(others, 1, Len(h) - 1)
            /\ Len(h) <= MAX_HISTORY_SIZE => Len(Tail(h)) = Min(Len(others), MAX_HISTORY_SIZE - 1)
            /\ NoDuplicates(history.before) => NoDuplicates(h)

C30_Witness ==
    /\ history.op = "add"
    /\ Len(history.history) = 3
    /\ Len(history.before) = 3
    /\ history.before[3].id = history.added
    /\ history.history[2] = history.before[1]
    /\ history.history[3] = history.before[2]

----------------------------------------------------------------------------
(* AppState pagination: fetch_stories, fetch_more_stories and the scroll   *)
(* listeners that spawn it (PageSpec). A Story is its id; the ids of a     *)
(* list type are ListBase + 1 .. ListBase + MaxListLen.                    *)

ListBase(l) == IF l = "Best" THEN 100 ELSE 200

\* the ids the server lists for a list type
IdsOf(l) == [i \in 1 .. MaxListLen |-> ListBase(l) + i]

\* the list type a story was fetched for
ListOfStory(id) == IF id > ListBase("Top") THEN "Top" ELSE "Best"

\* what fetch_stories_concurrent(ids) returns: the stories that were fetched
\* (failed ids are left out)
BatchResult(ids, part) ==
    CASE part = "all" -> ids
      [] part = "rest" -> IF ids = <<>> THEN <<>> ELSE Tail(ids)
      [] part = "none" -> <<>>

\* foreground_executor().spawn takes a new task
FreeTasks == {t \in TaskIds : tasks[t].pc = "idle"}

NextTask == CHOOSE t \in FreeTasks : \A x \in FreeTasks : t <= x

\* if state.loaded_count >= state.story_ids.len()
AllLoaded(st) == st.loaded_count >= Len(st.story_ids)

\* let end = (start + 20).min(state.story_ids.len())
BatchEnd(st) == Min(st.loaded_count + PageSize, Len(st.story_ids))

\* the first update of fetch_more_stories: the state it leaves
BeginState(st) ==
    IF AllLoaded(st)
    THEN [st EXCEPT !.loading = FALSE, !.loading_more = FALSE,
                    !.all_stories_loaded = TRUE]
    ELSE [st EXCEPT !.loading_more = TRUE]

\* the first update of fetch_more_stories: the batch the task takes
BeginTask(tk, st) ==
    IF AllLoaded(st)
    THEN [tk EXCEPT !.pc = "done"]
    ELSE [tk EXCEPT !.pc = "batch",
                    !.ids = SubSeq(st.story_ids, st.loaded_count + 1, BatchEnd(st)),
                    !.batch_size = BatchEnd(st) - st.loaded_count,
                    !.start = st.loaded_count,
                    !.epoch = st.epoch]

\* the second update of fetch_more_stories
EndState(st, tk, stories) ==
    LET count == st.loaded_count + tk.batch_size IN
    [st EXCEPT !.stories = @ \o stories,
               !.loaded_count = count,
               !.loading_more = FALSE,
               !.loading = FALSE,
               !.all_stories_loaded = IF count >= Len(st.story_ids) THEN TRUE ELSE @,
               !.foreign = IF tk.epoch # st.epoch THEN @ + 1 ELSE @]

PageInit ==
    /\ InitService(Config(0, 1, 2, TRUE, 1, 10))
    /\ cache = IdleCache
    /\ probe = NoProbe
    /\ AppIdle

\* AppState::fetch_stories(entity, list_type, cx): the task held in fetch_task
\* is dropped, the state is reset, a new task is spawned and kept
FetchStories(list_type) ==
    /\ FreeTasks # {}
    /\ LET t == NextTask
           old == app_state.fetch_task
       IN /\ tasks' = [x \in TaskIds |->
                          IF x = t
                          THEN [NoTask EXCEPT !.kind = "fetch", !.pc = "ids",
                                              !.list = list_type]
                          ELSE IF x = old /\ tasks[x].pc # "done"
                               THEN [tasks[x] EXCEPT !.pc = "cancelled"]
                               ELSE tasks[x]]
          /\ app_state' = [app_state EXCEPT
                              !.fetch_task = t,
                              !.loading = TRUE,
                              !.loading_more = FALSE,
                              !.all_stories_loaded = FALSE,
                              !.current_list = list_type,
                              !.stories = <<>>,
                              !.story_ids = <<>>,
                              !.loaded_count = 0,
                              !.epoch = @ + 1,
                              !.foreign = 0]
    /\ UNCHANGED <<svcVars, cacheVars, log_buffer, history>>

\* the task of fetch_stories: fetch_story_ids has answered (an error gives
\* Vec::new()), story_ids is set and fetch_more_stories takes the first batch
IdsArrive(t, ok) ==
    /\ tasks[t].kind = "fetch"
    /\ tasks[t].pc = "ids"
    /\ LET ids == IF ok THEN IdsOf(tasks[t].list) ELSE <<>>
           st == [app_state EXCEPT !.story_ids = ids]
       IN /\ app_state' = BeginState(st)
          /\ tasks' = [tasks EXCEPT ![t] = BeginTask(@, st)]
    /\ UNCHANGED <<svcVars, cacheVars, log_buffer, history>>

\* a detached task that will run fetch_more_stories, spawned by the listener
\* of the file src
SpawnMore(src) ==
    /\ tasks' = [tasks EXCEPT ![NextTask] = [NoTask EXCEPT !.kind = "more",
                                                           !.pc = "spawned",
                                                           !.list = src]]
    /\ UNCHANGED <<app_state, svcVars, cacheVars, log_buffer, history>>

\* the scroll listener of the list view in layout.rs, near the bottom
ScrollLayout ==
    /\ FreeTasks # {}
    /\ SpawnMore("layout")

\* the scroll listener of story_list.rs, near the bottom: should_load
ScrollStoryList ==
    /\ FreeTasks # {}
    /\ ~app_state.loading_more
    /\ ~app_state.all_stories_loaded
    /\ ~app_state.loading
    /\ SpawnMore("story_list")

\* a detached task runs: the first update of fetch_more_stories
MoreBegin(t) ==
    /\ tasks[t].kind = "more"
    /\ tasks[t].pc = "spawned"
    /\ app_state' = BeginState(app_state)
    /\ tasks' = [tasks EXCEPT ![t] = BeginTask(@, app_state)]
    /\ UNCHANGED <<svcVars, cacheVars, log_buffer, history>>

\* fetch_stories_concurrent has answered: the second update of
\* fetch_more_stories, in the task of fetch_stories or in a detached one
MoreEnd(t, stories) ==
    /\ tasks[t].pc = "batch"
    /\ app_state' = EndState(app_state, tasks[t], stories)
    /\ tasks' = [tasks EXCEPT ![t].pc = "done"]
    /\ UNCHANGED <<svcVars, cacheVars, log_buffer, history>>

PageNext ==
    \/ \E l \in StoryLists : FetchStories(l)
    \/ \E t \in TaskIds, ok \in BOOLEAN : IdsArrive(t, ok)
    \/ ScrollLayout
    \/ ScrollStoryList
    \/ \E t \in TaskIds : MoreBegin(t)
    \/ \E t \in TaskIds, part \in {"all", "rest", "none"} :
           MoreEnd(t, BatchResult(tasks[t].ids, part))

PageSpec == PageInit /\ [][PageNext]_vars

\* the tasks that requested, since the last reset, a batch holding the i-th
\* id of story_ids
RequestedBy(i) ==
    {t \in TaskIds : /\ tasks[t].pc \in {"batch", "done"}
                     /\ tasks[t].epoch = app_state.epoch
                     /\ tasks[t].start < i
                     /\ i <= tasks[t].start + tasks[t].batch_size}

\* C38: loaded_count never exceeds story_ids.len(), no id of story_ids is
\* requested by two batches, and no id below loaded_count was skipped.
C38_PagesExact ==
    /\ app_state.loaded_count <= Len(app_state.story_ids)
    /\ \A i \in 1 .. Len(app_state.story_ids) :
           /\ Cardinality(RequestedBy(i)) <= 1
           /\ i <= app_state.loaded_count => RequestedBy(i) # {}

\* C39: after the reset of fetch_stories no result of a fetch started before
\* it is applied: stories holds only stories of current_list, and every batch
\* counted in loaded_count was taken from the current story_ids.
C39_OnlyCurrentList ==
    /\ \A i \in 1 .. Len(app_state.stories) :
           ListOfStory(app_state.stories[i]) = app_state.current_list
    /\ app_state.foreign = 0

====
